---- MODULE Spec2Model ----
(***************************************************************************)
(* Model of adapter/outboundgroup/parser.go: ParseProxyGroup resolves one  *)
(* proxy-group configuration against the endpoint registry (proxyMap) and  *)
(* the shared provider registry (providersMap).  A configuration pass      *)
(* calls ParseProxyGroup once per group, one call after the other, on the  *)
(* same registries.                                                        *)
(***************************************************************************)
EXTENDS Integers, Sequences, FiniteSets, TLC

(***************************************************************************)
(* Bounds of the model and the inputs it draws.                            *)
(***************************************************************************)
MaxInterval == 1

GroupNames == {"", "g1"}
Types == {"", "select", "url-test", "fallback", "load-balance", "relay", "foo"}
EndpointNames == {"A", "B"}
PoolNames == {"P1", "P2"}
ProxyLists ==
    { <<>>, <<"A">>, <<"A", "B">>, <<"B", "A", "B">>, <<"A", "X">> }
UseLists ==
    { <<>>, <<"P1">>, <<"P1", "P2">>, <<"P2", "P1">>, <<"g1">>,
      <<"P1", "g1">>, <<"P1", "Q">> }
URLs == {"", "http://t"}
\* intervals are not negative here: uint(groupOption.Interval) is not modelled
Intervals == 0..MaxInterval
Filters == { <<>>, <<"a">>, <<"(">> }
Strategies == {"round-robin", "bogus"}

(***************************************************************************)
(* Values.                                                                 *)
(***************************************************************************)
NoErr == [kind |-> "none", group |-> "", detail |-> ""]
Err(kind, detail) == [kind |-> kind, group |-> "", detail |-> detail]

\* the package's sentinel errors
errFormat == Err("format error", "")
errType == Err("unsupported type", "")
errMissProxy == Err("use or proxies missing", "")
errMissHealthCheck == Err("url or interval missing", "")
errDuplicateProvider == Err("duplicate provider name", "")

\* fmt.Errorf("%s: %w", groupName, err)
Wrap(groupName, err) == [err EXCEPT !.group = groupName]

NoHealthCheck == [url |-> "", interval |-> 0, lazy |-> FALSE, proxies |-> <<"nil">>]

\* provider.NewHealthCheck(proxies, url, interval, lazy)
NewHealthCheck(ps, url, interval, lazy) ==
    [url |-> url, interval |-> interval, lazy |-> lazy, proxies |-> ps]

\* a dynamic pool (a provider.ProxySetProvider) already in the registry
ProxySetProvider(name) ==
    [kind |-> "ProxySet", name |-> name, proxies |-> <<>>,
     hc |-> NoHealthCheck, source |-> "", filter |-> <<>>]

\* provider.NewCompatibleProvider refuses an empty endpoint list
NewCompatibleProviderErr(ps) ==
    IF Len(ps) = 0 THEN Err("provider need one proxy at least", "") ELSE NoErr

\* provider.NewCompatibleProvider(name, proxies, hc)
NewCompatibleProvider(name, ps, hc) ==
    [kind |-> "Compatible", name |-> name, proxies |-> ps,
     hc |-> hc, source |-> "", filter |-> <<>>]

\* provider.NewProxyFilterProvider(name, pp, hc, filterRegx)
NewProxyFilterProvider(name, pp, hc, filterRegx) ==
    [kind |-> "ProxyFilter", name |-> name, proxies |-> <<>>,
     hc |-> hc, source |-> pp.name, filter |-> filterRegx]

NoAdapter == [variant |-> "nil", name |-> "", providers |-> <<>>, strategy |-> ""]
NewGroup(variant, groupOption, providers, strategy) ==
    [variant |-> variant, name |-> groupOption.Name,
     providers |-> providers, strategy |-> strategy]

(***************************************************************************)
(* Configurations: the decoded GroupCommonOption, the raw record and its   *)
(* load-balance strategy, and whether the record decodes at all.           *)
(***************************************************************************)
GroupCommonOption ==
    [Name : GroupNames, Type : Types, Proxies : ProxyLists, Use : UseLists,
     URL : URLs, Interval : Intervals, Lazy : BOOLEAN, Filter : Filters,
     strategy : Strategies, decodes : {TRUE}]

\* a record decoder.Decode rejects; its fields are never read
Undecodable ==
    [Name |-> "g1", Type |-> "select", Proxies |-> <<>>, Use |-> <<>>,
     URL |-> "", Interval |-> 0, Lazy |-> TRUE, Filter |-> <<>>,
     strategy |-> "round-robin", decodes |-> FALSE]

\* the strategy key is read for load-balance groups only
Configs ==
    { c \in GroupCommonOption :
        c.Type # "load-balance" => c.strategy = "round-robin" }
    \cup {Undecodable}

NoConfig ==
    [Name |-> "", Type |-> "", Proxies |-> <<>>, Use |-> <<>>,
     URL |-> "", Interval |-> 0, Lazy |-> TRUE, Filter |-> <<>>,
     strategy |-> "", decodes |-> FALSE]

(***************************************************************************)
(* regexp.Compile on the patterns of Filters: a pattern compiles when its  *)
(* parentheses balance.                                                    *)
(***************************************************************************)
RECURSIVE ParenDepth(_, _, _)
ParenDepth(pattern, i, depth) ==
    IF depth < 0 THEN depth
    ELSE IF i > Len(pattern) THEN depth
    ELSE IF pattern[i] = "(" THEN ParenDepth(pattern, i + 1, depth + 1)
    ELSE IF pattern[i] = ")" THEN ParenDepth(pattern, i + 1, depth - 1)
    ELSE ParenDepth(pattern, i + 1, depth)

RegexpCompile(pattern) ==
    IF ParenDepth(pattern, 1, 0) = 0
    THEN [err |-> NoErr, regx |-> pattern]
    ELSE [err |-> Err("invalid filter regex", "missing closing )"), regx |-> <<>>]

(***************************************************************************)
(* newHealthCheck                                                          *)
(***************************************************************************)
\* mutant: the check asks for both to be missing
newHealthCheckBothMissing(ps, groupOption) ==
    IF groupOption.Type = "select" \/ groupOption.Type = "relay"
    THEN [err |-> NoErr, hc |-> NewHealthCheck(ps, "", 0, TRUE)]
    ELSE IF groupOption.URL = "" /\ groupOption.Interval = 0
         THEN [err |-> errMissHealthCheck, hc |-> NoHealthCheck]
         ELSE [err |-> NoErr,
               hc |-> NewHealthCheck(ps, groupOption.URL, groupOption.Interval,
                                     groupOption.Lazy)]

\* mutant: select and relay get the configured policy when there is one
newHealthCheckConfigured(ps, groupOption) ==
    IF (groupOption.Type = "select" \/ groupOption.Type = "relay")
       /\ (groupOption.URL = "" \/ groupOption.Interval = 0)
    THEN [err |-> NoErr, hc |-> NewHealthCheck(ps, "", 0, TRUE)]
    ELSE IF groupOption.URL = "" \/ groupOption.Interval = 0
         THEN [err |-> errMissHealthCheck, hc |-> NoHealthCheck]
         ELSE [err |-> NoErr,
               hc |-> NewHealthCheck(ps, groupOption.URL, groupOption.Interval,
                                     groupOption.Lazy)]

newHealthCheck(ps, groupOption) ==
    IF groupOption.Type = "select" \/ groupOption.Type = "relay"
    THEN [err |-> NoErr, hc |-> NewHealthCheck(ps, "", 0, TRUE)]
    ELSE IF groupOption.URL = "" \/ groupOption.Interval = 0
         THEN [err |-> errMissHealthCheck, hc |-> NoHealthCheck]
         ELSE [err |-> NoErr,
               hc |-> NewHealthCheck(ps, groupOption.URL, groupOption.Interval,
                                     groupOption.Lazy)]

(***************************************************************************)
(* getProxies                                                              *)
(***************************************************************************)
RECURSIVE getProxiesFrom(_, _, _, _)
getProxiesFrom(mapping, list, i, ps) ==
    IF i > Len(list) THEN [err |-> NoErr, ps |-> ps]
    ELSE IF list[i] \notin DOMAIN mapping
         THEN [err |-> Err("not found", list[i]), ps |-> <<>>]
         ELSE getProxiesFrom(mapping, list, i + 1, Append(ps, mapping[list[i]]))

\* mutant: an endpoint already collected is not collected again
RECURSIVE getProxiesOnce(_, _, _, _)
getProxiesOnce(mapping, list, i, ps) ==
    IF i > Len(list) THEN [err |-> NoErr, ps |-> ps]
    ELSE IF list[i] \notin DOMAIN mapping
         THEN [err |-> Err("not found", list[i]), ps |-> <<>>]
         ELSE IF \E k \in 1..Len(ps) : ps[k] = mapping[list[i]]
         THEN getProxiesOnce(mapping, list, i + 1, ps)
         ELSE getProxiesOnce(mapping, list, i + 1, Append(ps, mapping[list[i]]))

getProxiesUnique(mapping, list) == getProxiesOnce(mapping, list, 1, <<>>)

getProxies(mapping, list) == getProxiesFrom(mapping, list, 1, <<>>)

(***************************************************************************)
(* getProviders.  RegisterProvidersInUse records the derived provider in   *)
(* the source's set of dependents; registered is the call's log of these   *)
(* registrations.  A failure keeps what earlier iterations registered.     *)
(***************************************************************************)
RegisterProvidersInUse(inuse, pp, fp) ==
    [inuse EXCEPT ![pp.name] = @ \cup {fp.name}]

fpName(name, groupOption) == name \o "-in-" \o groupOption.Name

\* mutant: any provider passes
IsAnyProvider(p) == p.kind \in {"ProxySet", "Compatible", "ProxyFilter"}

\* the type assertion of p to a provider.ProxySetProvider
IsProxySetProvider(p) == p.kind = "ProxySet"

RECURSIVE getProvidersFrom(_, _, _, _, _, _, _)
getProvidersFrom(mapping, groupOption, filterRegx, i, ps, inuse, registered) ==
    IF i > Len(groupOption.Use)
    THEN [err |-> NoErr, list |-> ps, inUse |-> inuse, registered |-> registered]
    ELSE
      LET name == groupOption.Use[i] IN
      IF name \notin DOMAIN mapping
      THEN [err |-> Err("not found", name), list |-> <<>>,
            inUse |-> inuse, registered |-> registered]
      ELSE IF ~IsProxySetProvider(mapping[name])
      THEN [err |-> Err("proxy group cannot be contained in use", name), list |-> <<>>,
            inUse |-> inuse, registered |-> registered]
      ELSE
        LET hcr == newHealthCheck(<<>>, groupOption) IN
        IF hcr.err # NoErr
        THEN [err |-> hcr.err, list |-> <<>>,
              inUse |-> inuse, registered |-> registered]
        ELSE
          LET pp == mapping[name]
              fp == NewProxyFilterProvider(fpName(name, groupOption), pp,
                                           hcr.hc, filterRegx)
          IN getProvidersFrom(mapping, groupOption, filterRegx, i + 1,
                              Append(ps, fp),
                              RegisterProvidersInUse(inuse, pp, fp),
                              Append(registered, <<pp.name, fp.name>>))

getProviders(mapping, groupOption, filterRegx, inuse) ==
    getProvidersFrom(mapping, groupOption, filterRegx, 1, <<>>, inuse, <<>>)

(***************************************************************************)
(* State.                                                                  *)
(*   proxyMap      the endpoint registry, name -> endpoint handle          *)
(*   providersMap  the provider registry, name -> provider                 *)
(*   inUse         for each dynamic pool, the names of its dependents      *)
(*   pc            "idle" between two calls, "returned" after a call       *)
(*   config        the configuration of the call that has returned         *)
(*   result        what that call returned: error, adapter, and the        *)
(*                 dependents it registered                                *)
(*   old           the registries as they were when that call began        *)
(***************************************************************************)
VARIABLES proxyMap, providersMap, inUse, pc, config, result, old

vars == <<proxyMap, providersMap, inUse, pc, config, result, old>>

NoResult == [err |-> NoErr, group |-> NoAdapter, registered |-> <<>>]

Snapshot(pm, provs, inuse) ==
    [proxyMap |-> pm, providersMap |-> provs, inUse |-> inuse]

Put(mapping, name, value) ==
    [n \in DOMAIN mapping \cup {name} |-> IF n = name THEN value ELSE mapping[n]]

(***************************************************************************)
(* The collaborators of ParseProxyGroup that live in other packages.       *)
(***************************************************************************)
\* parseStrategy(config)
parseStrategy(cfg) == cfg.strategy

\* NewLoadBalance fails on a strategy it does not know
NewLoadBalanceErr(strategy) ==
    IF strategy = "round-robin" THEN NoErr
    ELSE Err("unsupported strategy", strategy)

(***************************************************************************)
(* ParseProxyGroup, lines 112-131: dispatch on the type.                   *)
(* Returns the error and the adapter.                                      *)
(***************************************************************************)
Dispatch(cfg, providers) ==
    CASE cfg.Type = "url-test" ->
           [err |-> NoErr, group |-> NewGroup("URLTest", cfg, providers, "")]
      [] cfg.Type = "select" ->
           [err |-> NoErr, group |-> NewGroup("Selector", cfg, providers, "")]
      [] cfg.Type = "fallback" ->
           [err |-> NoErr, group |-> NewGroup("Fallback", cfg, providers, "")]
      [] cfg.Type = "load-balance" ->
           LET strategy == parseStrategy(cfg)
               e == NewLoadBalanceErr(strategy)
           IN IF e = NoErr
              THEN [err |-> NoErr,
                    group |-> NewGroup("LoadBalance", cfg, providers, strategy)]
              ELSE [err |-> e, group |-> NoAdapter]
      [] cfg.Type = "relay" ->
           [err |-> NoErr, group |-> NewGroup("Relay", cfg, providers, "")]
      [] OTHER ->
           [err |-> [kind |-> errType.kind, group |-> cfg.Name, detail |-> cfg.Type],
            group |-> NoAdapter]

(***************************************************************************)
(* ParseProxyGroup, lines 99-110: the use list, then the order of the      *)
(* providers.  providers is what the proxies step produced.                *)
(***************************************************************************)
\* mutant: no exception for fallback
MergeProvidersAppend(cfg, providers, list) == providers \o list

MergeProviders(cfg, providers, list) ==
    IF cfg.Type = "fallback" THEN list \o providers ELSE providers \o list

Failed(err, provs, inuse, registered) ==
    [err |-> err, group |-> NoAdapter, providersMap |-> provs,
     inUse |-> inuse, registered |-> registered]

UseStep(cfg, filterRegx, providers, provs, inuse) ==
    IF Len(cfg.Use) # 0
    THEN LET r == getProviders(provs, cfg, filterRegx, inuse) IN
         IF r.err # NoErr
         THEN Failed(Wrap(cfg.Name, r.err), provs, r.inUse, r.registered)
         ELSE LET d == Dispatch(cfg, MergeProviders(cfg, providers, r.list)) IN
              [err |-> d.err, group |-> d.group, providersMap |-> provs,
               inUse |-> r.inUse, registered |-> r.registered]
    ELSE LET d == Dispatch(cfg, providers) IN
         [err |-> d.err, group |-> d.group, providersMap |-> provs,
          inUse |-> inuse, registered |-> <<>>]

(***************************************************************************)
(* ParseProxyGroup, lines 75-97: the inline proxies, wrapped in a          *)
(* provider that is registered under the group's name.                     *)
(***************************************************************************)
\* mutant: only a dynamic pool of that name counts
HasPool(provs, groupName) ==
    groupName \in DOMAIN provs /\ provs[groupName].kind = "ProxySet"

\* _, ok := providersMap[groupName]
HasProvider(provs, groupName) == groupName \in DOMAIN provs

\* providersMap[groupName] = pd
Register(provs, groupName, pd) == Put(provs, groupName, pd)

ProxiesStep(cfg, filterRegx, pm, provs, inuse) ==
    IF Len(cfg.Proxies) # 0
    THEN LET r == getProxies(pm, cfg.Proxies) IN
         IF r.err # NoErr
         THEN Failed(Wrap(cfg.Name, r.err), provs, inuse, <<>>)
         ELSE IF HasProvider(provs, cfg.Name)
         THEN Failed(Wrap(cfg.Name, errDuplicateProvider), provs, inuse, <<>>)
         ELSE LET hcr == newHealthCheck(r.ps, cfg) IN
              IF hcr.err # NoErr
              THEN Failed(Wrap(cfg.Name, hcr.err), provs, inuse, <<>>)
              ELSE IF NewCompatibleProviderErr(r.ps) # NoErr
              THEN Failed(Wrap(cfg.Name, NewCompatibleProviderErr(r.ps)),
                          provs, inuse, <<>>)
              ELSE LET pd == NewCompatibleProvider(cfg.Name, r.ps, hcr.hc) IN
                   UseStep(cfg, filterRegx, <<pd>>,
                           Register(provs, cfg.Name, pd), inuse)
    ELSE UseStep(cfg, filterRegx, <<>>, provs, inuse)

(***************************************************************************)
(* ParseProxyGroup, lines 42-71: decoding, the required fields, the        *)
(* filter, and the two lists.                                              *)
(***************************************************************************)
\* mutant: the filter is compiled only when there is a use list to filter
CompileFilterForUse(cfg) ==
    IF cfg.Filter # <<>> /\ Len(cfg.Use) # 0 THEN RegexpCompile(cfg.Filter)
    ELSE [err |-> NoErr, regx |-> <<>>]

\* groupOption.Filter != "" and regexp.Compile
CompileFilter(cfg) ==
    IF cfg.Filter # <<>> THEN RegexpCompile(cfg.Filter)
    ELSE [err |-> NoErr, regx |-> <<>>]

\* mutant: the second comparison is inverted
MissProxyInverted(cfg) == Len(cfg.Proxies) = 0 /\ Len(cfg.Use) # 0

\* len(groupOption.Proxies) == 0 && len(groupOption.Use) == 0
MissProxy(cfg) == Len(cfg.Proxies) = 0 /\ Len(cfg.Use) = 0

Resolve(cfg, pm, provs, inuse) ==
    IF ~cfg.decodes
    THEN Failed(errFormat, provs, inuse, <<>>)
    ELSE IF cfg.Type = "" \/ cfg.Name = ""
    THEN Failed(errFormat, provs, inuse, <<>>)
    ELSE LET c == CompileFilter(cfg) IN
         IF c.err # NoErr
         THEN Failed(Wrap(cfg.Name, c.err), provs, inuse, <<>>)
         ELSE IF MissProxy(cfg)
         THEN Failed(Wrap(cfg.Name, errMissProxy), provs, inuse, <<>>)
         ELSE ProxiesStep(cfg, c.regx, pm, provs, inuse)

(***************************************************************************)
(* Init: the registries as the configuration loader hands them over, with  *)
(* the endpoints and the dynamic pools it has already built.               *)
(***************************************************************************)
Init ==
    /\ proxyMap = [n \in EndpointNames |-> "endpoint:" \o n]
    /\ providersMap = [n \in PoolNames |-> ProxySetProvider(n)]
    /\ inUse = [n \in PoolNames |-> {}]
    /\ pc = "idle"
    /\ config = NoConfig
    /\ result = NoResult
    /\ old = Snapshot(proxyMap, providersMap, inUse)

\* one call of ParseProxyGroup(cfg, proxyMap, providersMap)
Call(cfg) ==
    /\ LET r == Resolve(cfg, proxyMap, providersMap, inUse) IN
       /\ providersMap' = r.providersMap
       /\ inUse' = r.inUse
       /\ result' = [err |-> r.err, group |-> r.group, registered |-> r.registered]
    /\ config' = cfg
    /\ old' = Snapshot(proxyMap, providersMap, inUse)
    /\ pc' = "returned"
    /\ UNCHANGED proxyMap

ParseProxyGroup ==
    /\ pc = "idle"
    /\ \E cfg \in Configs : Call(cfg)

\* the loader takes the result and moves on to the next group
NextGroup ==
    /\ pc = "returned"
    /\ pc' = "idle"
    /\ config' = NoConfig
    /\ result' = NoResult
    /\ old' = Snapshot(proxyMap, providersMap, inUse)
    /\ UNCHANGED <<proxyMap, providersMap, inUse>>

Next ==
    \/ ParseProxyGroup
    \/ NextGroup

Spec == Init /\ [][Next]_vars

(***************************************************************************)
(* Vocabulary of the properties.  They are stated about the call that has  *)
(* returned: config, result, the registries after it and, in old, the      *)
(* registries before it.                                                   *)
(***************************************************************************)
Returned == pc = "returned"
Succeeded == Returned /\ result.err = NoErr
Errored == Returned /\ result.err # NoErr

\* the record decodes, and name and type are not empty
Binds(cfg) == cfg.decodes /\ cfg.Name # "" /\ cfg.Type # ""
Compiles(pattern) == RegexpCompile(pattern).err = NoErr
FilterUsable(cfg) == cfg.Filter = <<>> \/ Compiles(cfg.Filter)
ListsProxies(cfg) == cfg.Proxies # <<>>
ListsUse(cfg) == cfg.Use # <<>>
ProxiesResolve(cfg) ==
    \A i \in 1..Len(cfg.Proxies) : cfg.Proxies[i] \in DOMAIN old.proxyMap
IsPool(registry, name) ==
    name \in DOMAIN registry /\ registry[name].kind = "ProxySet"
IsGroupProvider(registry, name) ==
    name \in DOMAIN registry /\ registry[name].kind = "Compatible"
UseResolvesToPools(cfg) ==
    \A i \in 1..Len(cfg.Use) : IsPool(old.providersMap, cfg.Use[i])
NoProbing(cfg) == cfg.Type \in {"select", "relay"}
ProbeGiven(cfg) == cfg.URL # "" /\ cfg.Interval # 0
\* the inline-proxies step of the call goes through
ProxiesStepPasses(cfg) ==
    ListsProxies(cfg) =>
        /\ ProxiesResolve(cfg)
        /\ cfg.Name \notin DOMAIN old.providersMap
        /\ (NoProbing(cfg) \/ ProbeGiven(cfg))
Disabled(hc) == hc.url = "" /\ hc.interval = 0 /\ hc.lazy = TRUE
RegistriesUntouched ==
    /\ providersMap = old.providersMap
    /\ inUse = old.inUse
    /\ result.registered = <<>>
ErrorIs(err, group) == result.err = [err EXCEPT !.group = group]

(***************************************************************************)
(* C1                                                                      *)
(***************************************************************************)
\* C1: whenever ParseProxyGroup returns an error, providersMap holds exactly
\* the entries it held before the call.
C1_FailureLeavesRegistry == Errored => providersMap = old.providersMap

(***************************************************************************)
(* C2                                                                      *)
(***************************************************************************)
\* the registry already holds the provider an earlier resolution of a group
\* of this name registered for its inline proxies, and this group lists
\* inline proxies that all resolve
SecondOfSameName ==
    /\ Returned
    /\ ListsProxies(config)
    /\ ProxiesResolve(config)
    /\ IsGroupProvider(old.providersMap, config.Name)

\* C2 as stated, for a second group that binds: the second of two same-named
\* groups with resolving inline proxies fails with the duplicate-provider
\* error, and the registry entry is still the provider of the first.
C2_SecondAlwaysDuplicate ==
    (SecondOfSameName /\ Binds(config)) =>
        /\ ErrorIs(errDuplicateProvider, config.Name)
        /\ providersMap[config.Name] = old.providersMap[config.Name]

\* C2 amended: when the registry holds the provider an earlier resolution
\* registered for a group of the same name, a second group with resolving
\* inline proxies that binds and whose filter is empty or compiles fails with
\* the duplicate-provider error; the entry is never overwritten in any case.
C2_SecondDuplicate ==
    SecondOfSameName =>
        /\ (Binds(config) /\ FilterUsable(config)
              => ErrorIs(errDuplicateProvider, config.Name))
        /\ providersMap[config.Name] = old.providersMap[config.Name]

C2_Witness ==
    /\ SecondOfSameName
    /\ config.Type = "select"
    /\ config.Proxies = <<"A", "B">>
    /\ old.providersMap[config.Name].proxies = <<"endpoint:A">>
    /\ result.err.kind = errDuplicateProvider.kind

(***************************************************************************)
(* C3                                                                      *)
(***************************************************************************)
\* C3: a successfully resolved group with both proxies and use hands its
\* adapter the derived providers in use order followed by the synthetic
\* provider when the type is fallback, and the synthetic provider followed by
\* the derived providers in use order for every other type.
C3_ProviderOrder ==
    (Succeeded /\ ListsProxies(config) /\ ListsUse(config)) =>
        LET ps == result.group.providers
            n == Len(config.Use)
            first == IF config.Type = "fallback" THEN 1 ELSE 2
            synthetic == IF config.Type = "fallback" THEN n + 1 ELSE 1
        IN /\ Len(ps) = n + 1
           /\ ps[synthetic].kind = "Compatible"
           /\ ps[synthetic] = providersMap[config.Name]
           /\ \A i \in 1..n :
                /\ ps[first + i - 1].kind = "ProxyFilter"
                /\ ps[first + i - 1].source = config.Use[i]

C3_Witness ==
    /\ Succeeded
    /\ config.Type = "fallback"
    /\ config.Proxies = <<"A", "B">>
    /\ config.Use = <<"P2", "P1">>
    /\ result.group.providers[1].source = "P2"
    /\ result.group.providers[3].kind = "Compatible"

(***************************************************************************)
(* C4                                                                      *)
(***************************************************************************)
\* a group that is not select or relay, with the URL empty or the interval
\* zero, and with candidates from proxies, from use, or from both
LacksProbe ==
    /\ Returned
    /\ ~NoProbing(config)
    /\ ~ProbeGiven(config)
    /\ (ListsProxies(config) \/ ListsUse(config))

\* C4 as stated, for a group that binds and whose filter is usable: every
\* group that is not select or relay and has an empty URL or a zero interval
\* fails with the missing-health-check error naming the group, whether its
\* candidates come from proxies, from use, or from both.
C4_AlwaysMissHealthCheck ==
    (LacksProbe /\ Binds(config) /\ FilterUsable(config))
    => ErrorIs(errMissHealthCheck, config.Name)

\* C4 amended: the same, for a configuration that binds, whose filter is empty
\* or compiles, and whose resolution reaches a health-check construction: its
\* inline proxies all resolve and its name is not yet registered or, with no
\* inline proxies, its first use name resolves to a dynamic pool.
C4_MissHealthCheck ==
    (/\ LacksProbe
     /\ Binds(config)
     /\ FilterUsable(config)
     /\ IF ListsProxies(config)
        THEN ProxiesResolve(config) /\ config.Name \notin DOMAIN old.providersMap
        ELSE IsPool(old.providersMap, config.Use[1]))
    => ErrorIs(errMissHealthCheck, config.Name)

C4_Witness ==
    /\ LacksProbe
    /\ config.Type = "url-test"
    /\ config.URL = ""
    /\ config.Interval # 0
    /\ config.Proxies = <<>>
    /\ config.Use = <<"P1", "P2">>
    /\ ErrorIs(errMissHealthCheck, "g1")

(***************************************************************************)
(* C5                                                                      *)
(***************************************************************************)
\* every health-check policy the call created for the group: those of the
\* providers handed to the adapter, and that of a provider it registered
PoliciesDisabled ==
    /\ \A i \in 1..Len(result.group.providers) :
         Disabled(result.group.providers[i].hc)
    /\ \A n \in DOMAIN providersMap \ DOMAIN old.providersMap :
         Disabled(providersMap[n].hc)

\* C5 as stated, for a configuration that binds, has a usable filter and lists
\* proxies or use: for select and relay, a configuration whose references all
\* resolve succeeds even without url and interval, and every policy created
\* for the group is the disabled one whatever url, interval and lazy say.
C5_AlwaysSucceeds ==
    (/\ Returned
     /\ NoProbing(config)
     /\ Binds(config)
     /\ FilterUsable(config)
     /\ (ListsProxies(config) \/ ListsUse(config))
     /\ ProxiesResolve(config)
     /\ \A i \in 1..Len(config.Use) : config.Use[i] \in DOMAIN old.providersMap)
    => Succeeded /\ PoliciesDisabled

\* C5 amended: for select and relay, a configuration that binds, whose filter
\* is empty or compiles, that lists proxies or use, whose inline proxies all
\* resolve under a name not yet registered, and whose use names all resolve to
\* dynamic pools, succeeds even without url and interval; and every policy a
\* select or relay resolution creates is the disabled one.
C5_DisabledPolicy ==
    (Returned /\ NoProbing(config)) =>
        /\ (/\ Binds(config)
            /\ FilterUsable(config)
            /\ (ListsProxies(config) \/ ListsUse(config))
            /\ ProxiesResolve(config)
            /\ (ListsProxies(config) => config.Name \notin DOMAIN old.providersMap)
            /\ UseResolvesToPools(config))
           => Succeeded
        /\ PoliciesDisabled

C5_Witness ==
    /\ Succeeded
    /\ config.Type = "relay"
    /\ config.URL # ""
    /\ config.Interval # 0
    /\ config.Lazy = FALSE
    /\ config.Proxies = <<"A">>
    /\ config.Use = <<"P1">>
    /\ Len(result.group.providers) = 2
    /\ PoliciesDisabled

(***************************************************************************)
(* C6                                                                      *)
(***************************************************************************)
\* C6, on the configurations whose filter and references are in order: a
\* configuration with a non-empty name and a non-empty type that is none of
\* the five kinds fails with the unsupported-type error naming the group and
\* the kind, whatever url and interval are.
C6_UnsupportedType ==
    (/\ Returned
     /\ Binds(config)
     /\ config.Type \notin {"select", "url-test", "fallback", "load-balance", "relay"}
     /\ FilterUsable(config)
     /\ (ListsProxies(config) \/ ListsUse(config))
     /\ ProxiesResolve(config)
     /\ (ListsProxies(config) => config.Name \notin DOMAIN old.providersMap)
     /\ UseResolvesToPools(config))
    => result.err = [kind |-> errType.kind, group |-> config.Name,
                     detail |-> config.Type]

(***************************************************************************)
(* C7                                                                      *)
(***************************************************************************)
errCantUse(name) == Err("proxy group cannot be contained in use", name)

\* nothing derived from the provider called name: no dependent registered on
\* it, no provider of the adapter drawn from it
NothingDerivedFrom(name) ==
    /\ \A k \in 1..Len(result.registered) : result.registered[k][1] # name
    /\ \A k \in 1..Len(result.group.providers) :
         result.group.providers[k].source # name

\* C7 as stated, for a configuration that binds and whose filter is usable:
\* if a name in use resolves in the registry to a group-composed provider,
\* that of an earlier resolution or the one this resolution has just
\* registered, resolution fails with the incompatible-reference error and no
\* derived provider is created for that name.
C7_AlwaysIncompatible ==
    \A i \in 1..Len(config.Use) :
        (/\ Returned
         /\ Binds(config)
         /\ FilterUsable(config)
         /\ IsGroupProvider(providersMap, config.Use[i])) =>
            /\ ErrorIs(errCantUse(config.Use[i]), config.Name)
            /\ NothingDerivedFrom(config.Use[i])

\* C7 amended: the error is the incompatible-reference error when resolution
\* gets to that name: the configuration binds, its filter is empty or
\* compiles, its inline-proxies step goes through, every earlier use name is a
\* dynamic pool, and the name is the first of use or the health check of the
\* group can be built.  No derived provider is created for the name in any case.
C7_Incompatible ==
    \A i \in 1..Len(config.Use) :
        (Returned /\ IsGroupProvider(providersMap, config.Use[i])) =>
            /\ (/\ Binds(config)
                /\ FilterUsable(config)
                /\ ProxiesStepPasses(config)
                /\ \A j \in 1..(i - 1) : IsPool(old.providersMap, config.Use[j])
                /\ (i = 1 \/ NoProbing(config) \/ ProbeGiven(config)))
               => ErrorIs(errCantUse(config.Use[i]), config.Name)
            /\ NothingDerivedFrom(config.Use[i])

C7_Witness ==
    /\ Returned
    /\ config.Name = "g1"
    /\ config.Proxies = <<"A">>
    /\ config.Use = <<"P1", "g1">>
    /\ "g1" \notin DOMAIN old.providersMap
    /\ IsGroupProvider(providersMap, "g1")
    /\ ErrorIs(errCantUse("g1"), "g1")

(***************************************************************************)
(* C8                                                                      *)
(***************************************************************************)
ListsNothing == Returned /\ config.Proxies = <<>> /\ config.Use = <<>>

\* C8 as stated, for a configuration that binds: a configuration with neither
\* proxies nor use fails with the use-or-proxies-missing error, before any
\* provider is registered: the registry is unchanged and no source provider
\* gains a dependent.
C8_AlwaysMissProxy ==
    (ListsNothing /\ Binds(config))
    => ErrorIs(errMissProxy, config.Name) /\ RegistriesUntouched

\* C8 amended: such a configuration fails, with the use-or-proxies-missing
\* error when it binds and its filter is empty or compiles, and in every case
\* before any provider is registered.
C8_MissProxy ==
    ListsNothing =>
        /\ Errored
        /\ (Binds(config) /\ FilterUsable(config)
              => ErrorIs(errMissProxy, config.Name))
        /\ RegistriesUntouched

C8_Witness ==
    /\ ListsNothing
    /\ config.Type = "url-test"
    /\ config.Filter = <<"a">>
    /\ ErrorIs(errMissProxy, "g1")
    /\ RegistriesUntouched

(***************************************************************************)
(* C9                                                                      *)
(***************************************************************************)
BadFilter == Returned /\ config.Filter # <<>> /\ ~Compiles(config.Filter)

\* C9 as stated: a configuration whose filter is a non-empty pattern that does
\* not compile fails with the invalid-filter error naming the group, and no
\* provider is registered, also when the group has no use list.
C9_AlwaysInvalidFilter ==
    BadFilter =>
        /\ ErrorIs(RegexpCompile(config.Filter).err, config.Name)
        /\ RegistriesUntouched

\* C9 amended: such a configuration fails, with the invalid-filter error naming
\* the group when it binds, and in every case without registering a provider.
C9_InvalidFilter ==
    BadFilter =>
        /\ Errored
        /\ (Binds(config)
              => /\ result.err.kind = "invalid filter regex"
                 /\ result.err.group = config.Name)
        /\ RegistriesUntouched

C9_Witness ==
    /\ BadFilter
    /\ config.Type = "select"
    /\ config.Proxies = <<"A", "B">>
    /\ config.Use = <<>>
    /\ result.err.kind = "invalid filter regex"
    /\ result.err.group = "g1"
    /\ RegistriesUntouched

(***************************************************************************)
(* C10                                                                     *)
(***************************************************************************)
ValidSelect ==
    /\ Returned
    /\ Binds(config)
    /\ config.Type = "select"
    /\ FilterUsable(config)
    /\ ListsProxies(config)
    /\ ProxiesResolve(config)
    /\ config.Name \notin DOMAIN old.providersMap
    /\ UseResolvesToPools(config)

\* C10: a valid select configuration with non-empty proxies, its names all in
\* the endpoint registry and its group name not yet in the provider registry,
\* succeeds, and its synthetic provider wraps exactly the listed names mapped
\* through the endpoint registry: same length, same order, duplicates kept;
\* the endpoint registry is not modified.
C10_InlineEndpoints ==
    ValidSelect =>
        /\ Succeeded
        /\ LET pd == result.group.providers[1] IN
           /\ pd.kind = "Compatible"
           /\ pd.name = config.Name
           /\ pd = providersMap[config.Name]
           /\ Len(pd.proxies) = Len(config.Proxies)
           /\ \A i \in 1..Len(config.Proxies) :
                pd.proxies[i] = old.proxyMap[config.Proxies[i]]
        /\ proxyMap = old.proxyMap

C10_Witness ==
    /\ ValidSelect
    /\ Succeeded
    /\ config.Proxies = <<"B", "A", "B">>
    /\ result.group.providers[1].proxies
         = <<"endpoint:B", "endpoint:A", "endpoint:B">>

====
